---- MODULE Spec2Model ----
(***************************************************************************)
(* Model of aspia's client-side FileRemover (client/file_remover.cc): the  *)
(* object that takes the task queue built by FileRemoveQueueBuilder, emits *)
(* one removal request at a time, interprets the replies, applies the      *)
(* operator's failure action and signals finished().                       *)
(*                                                                         *)
(* The object lives in one thread; every slot runs to completion, so each  *)
(* slot invocation is one atomic action.  The signals a slot emits are     *)
(* appended, in emission order, to the history variable trace, right after *)
(* the entry of the slot invocation that caused them.                      *)
(***************************************************************************)
EXTENDS Integers, Sequences, FiniteSets, TLC

(***************************************************************************)
(* Bounds.                                                                 *)
(***************************************************************************)
\* longest task queue the builder hands off in Spec / SpecContract
MaxTasks == 3
\* replies whose request is not a removal request, per batch
MaxStray == 1
\* longest task queue of the all-success runs (SpecProgress); above 100 so
\* that two successive tasks can share a percentage
MaxProgressTasks == 102

(***************************************************************************)
(* Values.                                                                 *)
(***************************************************************************)
\* FileRemover::Action as used in file_remover.cc
Ask == "Ask"
Abort == "Abort"
Skip == "Skip"
SkipAll == "SkipAll"

\* proto::file_transfer::Status values the switch in reply() distinguishes;
\* STATUS_OTHER stands for every status that hits the default label
STATUS_SUCCESS == "STATUS_SUCCESS"
STATUS_PATH_NOT_FOUND == "STATUS_PATH_NOT_FOUND"
STATUS_ACCESS_DENIED == "STATUS_ACCESS_DENIED"
STATUS_OTHER == "STATUS_OTHER"
Statuses == {STATUS_SUCCESS, STATUS_PATH_NOT_FOUND, STATUS_ACCESS_DENIED, STATUS_OTHER}

\* initial value of failure_action_ (set in the class declaration)
InitFailureAction == Ask

\* a trace entry: a slot invocation or an emitted signal
Entry(ev) ==
    [ev |-> ev, path |-> 0, percentage |-> 0, actions |-> {},
     status |-> "", action |-> "", size |-> 0]

\* emit finished()
SigFinished == Entry("finished")
\* emit error(this, actions, message)
SigError(actions) == [Entry("error") EXCEPT !.actions = actions]
\* emit progressChanged(path, percentage)
SigProgressChanged(path, percentage) ==
    [Entry("progressChanged") EXCEPT !.path = path, !.percentage = percentage]
\* emit request(FileRequest::removeRequest(this, path, kReplySlot))
SigRequest(path) == [Entry("request") EXCEPT !.path = path]

\* a task queue of n tasks with pairwise distinct paths; a path is a positive
\* number (0 stands for "no path"), and the task at position i has path
\* n + 1 - i, so that a path is neither a position nor a count of done tasks
QueueOf(n) == [i \in 1..n |-> n + 1 - i]

\* the task queues a builder can hand off
TaskQueues == {QueueOf(n) : n \in 0..MaxTasks}

VARIABLES
    builder_,         \* "null" | "running" | "error" | "finished"
    builderTaskQueue, \* builder_->taskQueue(): <<>> until the builder finishes
    tasks_,           \* QQueue<Task>, as the sequence of the tasks' paths
    tasks_count_,     \* int
    failure_action_,  \* Action
    fatal,            \* TRUE once qFatal / Q_ASSERT has stopped the process
    outstanding,      \* transport: paths of emitted requests not yet answered
    pending,          \* operator: allowed-action sets of errors not yet answered
    strays,           \* number of non-removal replies delivered so far
    trace,            \* history of slot invocations and emitted signals
    stop_             \* one call of ServiceController::stop(): its locals

vars == <<builder_, builderTaskQueue, tasks_, tasks_count_, failure_action_, fatal,
          outstanding, pending, strays, trace, stop_>>

\* the member fields of the FileRemover object the slots read and write
This ==
    [tasks_ |-> tasks_, tasks_count_ |-> tasks_count_,
     failure_action_ |-> failure_action_]

\* result of running a member function: the object afterwards, the signals
\* emitted in order, and whether the process was stopped
Ret(o, out) == [o |-> o, out |-> out, fatal |-> FALSE]
Fatal(o) == [o |-> o, out |-> <<>>, fatal |-> TRUE]

(***************************************************************************)
(* Member functions of FileRemover.                                        *)
(***************************************************************************)
\* the percentage counts the front task as done
processTask_FrontDone(o) ==
    IF o.tasks_ = <<>>
    THEN Ret(o, <<SigFinished>>)
    ELSE IF o.tasks_count_ = 0
    THEN Fatal(o)
    ELSE LET percentage ==
                 ((o.tasks_count_ - Len(o.tasks_) + 1) * 100) \div o.tasks_count_
         IN Ret(o, <<SigProgressChanged(Head(o.tasks_), percentage),
                     SigRequest(Head(o.tasks_))>>)

\* the percentage is the share of the tasks still queued
processTask_Remaining(o) ==
    IF o.tasks_ = <<>>
    THEN Ret(o, <<SigFinished>>)
    ELSE IF o.tasks_count_ = 0
    THEN Fatal(o)
    ELSE LET percentage == (Len(o.tasks_) * 100) \div o.tasks_count_
         IN Ret(o, <<SigProgressChanged(Head(o.tasks_), percentage),
                     SigRequest(Head(o.tasks_))>>)

\* the divisor is the current queue length
processTask_DivByCurrent(o) ==
    IF o.tasks_ = <<>>
    THEN Ret(o, <<SigFinished>>)
    ELSE LET percentage ==
                 ((o.tasks_count_ - Len(o.tasks_)) * 100) \div Len(o.tasks_)
         IN Ret(o, <<SigProgressChanged(Head(o.tasks_), percentage),
                     SigRequest(Head(o.tasks_))>>)

\* Q_ASSERT(tasks_count_ != 0) guards the division; a zero divisor stops the
\* process (assertion failure, or division by zero without assertions)
processTask(o) ==
    IF o.tasks_ = <<>>
    THEN Ret(o, <<SigFinished>>)
    ELSE IF o.tasks_count_ = 0
    THEN Fatal(o)
    ELSE LET percentage ==
                 ((o.tasks_count_ - Len(o.tasks_)) * 100) \div o.tasks_count_
         IN Ret(o, <<SigProgressChanged(Head(o.tasks_), percentage),
                     SigRequest(Head(o.tasks_))>>)

\* without the pop_front
processNextTask_NoPop(o) == processTask(o)

processNextTask(o) ==
    IF o.tasks_ # <<>>
    THEN processTask([o EXCEPT !.tasks_ = Tail(o.tasks_)])
    ELSE processTask(o)

\* the SkipAll case without the assignment to failure_action_
applyAction_SkipAllNotStored(o, action) ==
    CASE action = Skip -> processNextTask(o)
      [] action = SkipAll -> processNextTask(o)
      [] action = Abort -> Ret(o, <<SigFinished>>)
      [] OTHER -> Fatal(o)

\* every action is stored before the switch
applyAction_StoreAll(o, action) ==
    CASE action = Skip ->
            processNextTask([o EXCEPT !.failure_action_ = action])
      [] action = SkipAll ->
            processNextTask([o EXCEPT !.failure_action_ = action])
      [] action = Abort ->
            Ret([o EXCEPT !.failure_action_ = action], <<SigFinished>>)
      [] OTHER -> Fatal(o)

\* the Skip case stores the action as the SkipAll case does
applyAction_StickySkip(o, action) ==
    CASE action = Skip ->
            processNextTask([o EXCEPT !.failure_action_ = action])
      [] action = SkipAll ->
            processNextTask([o EXCEPT !.failure_action_ = action])
      [] action = Abort -> Ret(o, <<SigFinished>>)
      [] OTHER -> Fatal(o)

\* the Abort case without its emit
applyAction_NoFinished(o, action) ==
    CASE action = Skip -> processNextTask(o)
      [] action = SkipAll ->
            processNextTask([o EXCEPT !.failure_action_ = action])
      [] action = Abort -> Ret(o, <<>>)
      [] OTHER -> Fatal(o)

\* the SkipAll case without its break: falls through into the Abort case
applyAction_NoBreak(o, action) ==
    CASE action = Skip -> processNextTask(o)
      [] action = SkipAll ->
            LET r == processNextTask([o EXCEPT !.failure_action_ = action])
            IN [r EXCEPT !.out = r.out \o <<SigFinished>>]
      [] action = Abort -> Ret(o, <<SigFinished>>)
      [] OTHER -> Fatal(o)

applyAction(o, action) ==
    CASE action = Skip -> processNextTask(o)
      [] action = SkipAll ->
            processNextTask([o EXCEPT !.failure_action_ = action])
      [] action = Abort -> Ret(o, <<SigFinished>>)
      [] OTHER -> Fatal(o)

\* the default label advertises the same actions as the recoverable statuses
reply_OtherSkippable(o, request, rep) ==
    IF ~request.has_remove_request
    THEN Ret(o, <<SigError({Abort})>>)
    ELSE IF rep.status # STATUS_SUCCESS
    THEN IF rep.status \in {STATUS_PATH_NOT_FOUND, STATUS_ACCESS_DENIED}
         THEN IF o.failure_action_ # Ask
              THEN applyAction(o, o.failure_action_)
              ELSE Ret(o, <<SigError({Abort, Skip, SkipAll})>>)
         ELSE Ret(o, <<SigError({Abort, Skip, SkipAll})>>)
    ELSE processNextTask(o)

\* the recoverable statuses advertise Abort and Skip only
reply_NoSkipAll(o, request, rep) ==
    IF ~request.has_remove_request
    THEN Ret(o, <<SigError({Abort})>>)
    ELSE IF rep.status # STATUS_SUCCESS
    THEN IF rep.status \in {STATUS_PATH_NOT_FOUND, STATUS_ACCESS_DENIED}
         THEN IF o.failure_action_ # Ask
              THEN applyAction(o, o.failure_action_)
              ELSE Ret(o, <<SigError({Abort, Skip})>>)
         ELSE Ret(o, <<SigError({Abort})>>)
    ELSE processNextTask(o)

\* the status is looked at before the kind of the request
reply_StatusFirst(o, request, rep) ==
    IF rep.status # STATUS_SUCCESS
    THEN IF rep.status \in {STATUS_PATH_NOT_FOUND, STATUS_ACCESS_DENIED}
         THEN IF o.failure_action_ # Ask
              THEN applyAction(o, o.failure_action_)
              ELSE Ret(o, <<SigError({Abort, Skip, SkipAll})>>)
         ELSE Ret(o, <<SigError({Abort})>>)
    ELSE IF ~request.has_remove_request
    THEN Ret(o, <<SigError({Abort})>>)
    ELSE processNextTask(o)

\* an unclassified failure requests the same task again
reply_RetryOther(o, request, rep) ==
    IF ~request.has_remove_request
    THEN Ret(o, <<SigError({Abort})>>)
    ELSE IF rep.status # STATUS_SUCCESS
    THEN IF rep.status \in {STATUS_PATH_NOT_FOUND, STATUS_ACCESS_DENIED}
         THEN IF o.failure_action_ # Ask
              THEN applyAction(o, o.failure_action_)
              ELSE Ret(o, <<SigError({Abort, Skip, SkipAll})>>)
         ELSE processTask(o)
    ELSE processNextTask(o)

\* the stored action is applied to every failure status
reply_PolicyFirst(o, request, rep) ==
    IF ~request.has_remove_request
    THEN Ret(o, <<SigError({Abort})>>)
    ELSE IF rep.status # STATUS_SUCCESS
    THEN IF o.failure_action_ # Ask
         THEN applyAction(o, o.failure_action_)
         ELSE IF rep.status \in {STATUS_PATH_NOT_FOUND, STATUS_ACCESS_DENIED}
              THEN Ret(o, <<SigError({Abort, Skip, SkipAll})>>)
              ELSE Ret(o, <<SigError({Abort})>>)
    ELSE processNextTask(o)

\* the error branch without its return: the failed task is dequeued as well
reply_NoReturn(o, request, rep) ==
    IF ~request.has_remove_request
    THEN Ret(o, <<SigError({Abort})>>)
    ELSE IF rep.status # STATUS_SUCCESS
    THEN IF rep.status \in {STATUS_PATH_NOT_FOUND, STATUS_ACCESS_DENIED}
         THEN IF o.failure_action_ # Ask
              THEN applyAction(o, o.failure_action_)
              ELSE LET r == processNextTask(o)
                   IN [r EXCEPT !.out = <<SigError({Abort, Skip, SkipAll})>> \o r.out]
         ELSE Ret(o, <<SigError({Abort})>>)
    ELSE processNextTask(o)

\* request: [has_remove_request, path]; rep: [status]
reply(o, request, rep) ==
    IF ~request.has_remove_request
    THEN Ret(o, <<SigError({Abort})>>)
    ELSE IF rep.status # STATUS_SUCCESS
    THEN IF rep.status \in {STATUS_PATH_NOT_FOUND, STATUS_ACCESS_DENIED}
         THEN IF o.failure_action_ # Ask
              THEN applyAction(o, o.failure_action_)
              ELSE Ret(o, <<SigError({Abort, Skip, SkipAll})>>)
         ELSE Ret(o, <<SigError({Abort})>>)
    ELSE processNextTask(o)

\* the builder's error can be skipped
taskQueueError_Skippable(o) == Ret(o, <<SigError({Abort, Skip, SkipAll})>>)

taskQueueError(o) == Ret(o, <<SigError({Abort})>>)

\* without the assignment to tasks_count_
taskQueueReady_NoCount(o, queue) == processTask([o EXCEPT !.tasks_ = queue])

\* processing starts only for a non-empty queue
taskQueueReady_SkipEmpty(o, queue) ==
    IF queue = <<>>
    THEN Ret([o EXCEPT !.tasks_ = queue, !.tasks_count_ = Len(queue)], <<>>)
    ELSE processTask([o EXCEPT !.tasks_ = queue, !.tasks_count_ = Len(queue)])

\* queue: the value of builder_->taskQueue()
taskQueueReady(o, queue) ==
    processTask([o EXCEPT !.tasks_ = queue, !.tasks_count_ = Len(queue)])

(***************************************************************************)
(* ServiceController::stop() (base/service_controller.cc).  The locals of  *)
(* one call are the record stop_; queries counts the QueryServiceStatus    *)
(* calls, control_ok and query_failed remember what the API calls          *)
(* returned.                                                               *)
(***************************************************************************)
\* the bound of the polling loop
MaxAttempts == 15

SERVICE_STOPPED == "SERVICE_STOPPED"
\* the values of SERVICE_STATUS::dwCurrentState
ServiceStates ==
    {SERVICE_STOPPED, "SERVICE_START_PENDING", "SERVICE_STOP_PENDING",
     "SERVICE_RUNNING", "SERVICE_CONTINUE_PENDING", "SERVICE_PAUSE_PENDING",
     "SERVICE_PAUSED"}

\* on entry: status is not initialized, nothing has been called
StopEntry ==
    [pc |-> "control", dwCurrentState |-> "uninitialized",
     is_stopped |-> FALSE, number_of_attempts |-> 0, result |-> "none",
     control_ok |-> FALSE, query_failed |-> FALSE, queries |-> 0]

\* ControlService(service_, SERVICE_CONTROL_STOP, &status) returned ok, with
\* state in status.dwCurrentState; then the locals are initialized
stopControl(l, ok, state) ==
    IF ~ok
    THEN [l EXCEPT !.pc = "return", !.result = FALSE]
    ELSE [l EXCEPT !.pc = "loop", !.control_ok = TRUE,
                   !.dwCurrentState = state,
                   !.is_stopped = (state = SERVICE_STOPPED),
                   !.number_of_attempts = 0]

\* the loop runs one attempt too many
stopLoopCondition_Inclusive(l) ==
    ~l.is_stopped /\ l.number_of_attempts <= MaxAttempts

\* the condition of the while loop
stopLoopCondition(l) == ~l.is_stopped /\ l.number_of_attempts < MaxAttempts

\* one pass of the loop body: Sleep(250), then QueryServiceStatus returned ok
\* with state in status.dwCurrentState; a failed query breaks out of the loop
stopPoll(l, ok, state) ==
    IF ~ok
    THEN [l EXCEPT !.pc = "return", !.result = l.is_stopped,
                   !.query_failed = TRUE, !.queries = l.queries + 1]
    ELSE [l EXCEPT !.dwCurrentState = state,
                   !.is_stopped = (state = SERVICE_STOPPED),
                   !.number_of_attempts = l.number_of_attempts + 1,
                   !.queries = l.queries + 1]

\* return is_stopped
stopReturn(l) == [l EXCEPT !.pc = "return", !.result = l.is_stopped]

(***************************************************************************)
(* The environment: controller, queue builder, transport and operator.     *)
(***************************************************************************)
RECURSIVE SelectEv(_, _)
\* the entries of s whose ev is ev, in order
SelectEv(s, ev) ==
    IF s = <<>> THEN <<>>
    ELSE IF Head(s).ev = ev THEN <<Head(s)>> \o SelectEv(Tail(s), ev)
    ELSE SelectEv(Tail(s), ev)

RemoveAt(s, i) == [j \in 1..(Len(s) - 1) |-> IF j < i THEN s[j] ELSE s[j + 1]]

TypeOK ==
    /\ builder_ \in {"null", "running", "error", "finished"}
    /\ tasks_count_ \in Nat
    /\ failure_action_ \in {Ask, Abort, Skip, SkipAll}
    /\ fatal \in BOOLEAN
    /\ strays \in 0..MaxStray

Init ==
    /\ builder_ = "null"
    /\ builderTaskQueue = <<>>
    /\ tasks_ = <<>>
    /\ tasks_count_ = 0
    /\ failure_action_ = InitFailureAction
    /\ fatal = FALSE
    /\ outstanding = <<>>
    /\ pending = <<>>
    /\ strays = 0
    /\ trace = <<>>
    /\ stop_ = StopEntry

\* the slot invocation `call` returned r; outstandingLeft and pendingLeft are
\* the transport's and the operator's queues without the request or error the
\* invocation answers
Deliver(call, r, outstandingLeft, pendingLeft) ==
    /\ tasks_' = r.o.tasks_
    /\ tasks_count_' = r.o.tasks_count_
    /\ failure_action_' = r.o.failure_action_
    /\ fatal' = r.fatal
    /\ trace' = (trace \o <<call>>) \o r.out
    /\ outstanding' =
           outstandingLeft \o
           [i \in 1..Len(SelectEv(r.out, "request")) |->
               SelectEv(r.out, "request")[i].path]
    /\ pending' =
           pendingLeft \o
           [i \in 1..Len(SelectEv(r.out, "error")) |->
               SelectEv(r.out, "error")[i].actions]
    /\ UNCHANGED stop_

\* FileRemover::start: creates the builder, connects its signals and starts it
Start ==
    /\ ~fatal
    /\ builder_ = "null"
    /\ builder_' = "running"
    /\ trace' = Append(trace, Entry("start"))
    /\ UNCHANGED <<builderTaskQueue, tasks_, tasks_count_, failure_action_,
                   fatal, outstanding, pending, strays, stop_>>

\* the builder emits error(message)
TaskQueueError ==
    /\ ~fatal
    /\ builder_ = "running"
    /\ builder_' = "error"
    /\ Deliver(Entry("taskQueueError"), taskQueueError(This),
               outstanding, pending)
    /\ UNCHANGED <<builderTaskQueue, strays>>

\* the builder emits finished() with task queue q
TaskQueueReadyWith(q) ==
    /\ ~fatal
    /\ builder_ = "running"
    /\ builder_' = "finished"
    /\ builderTaskQueue' = q
    /\ Deliver([Entry("taskQueueReady") EXCEPT !.size = Len(q)],
               taskQueueReady(This, builderTaskQueue'), outstanding, pending)
    /\ UNCHANGED strays

TaskQueueReady == \E q \in TaskQueues : TaskQueueReadyWith(q)

\* the transport answers the oldest outstanding removal request with status s
ReplyWith(s) ==
    /\ ~fatal
    /\ outstanding # <<>>
    /\ Deliver([Entry("reply") EXCEPT !.path = Head(outstanding), !.status = s],
               reply(This,
                     [has_remove_request |-> TRUE, path |-> Head(outstanding)],
                     [status |-> s]),
               Tail(outstanding), pending)
    /\ UNCHANGED <<builder_, builderTaskQueue, strays>>

Reply == \E s \in Statuses : ReplyWith(s)

\* the transport delivers a reply whose request is not a removal request; the
\* reply's status may be any (the trace does not record it)
StrayReply ==
    /\ ~fatal
    /\ builder_ # "null"
    /\ strays < MaxStray
    /\ strays' = strays + 1
    /\ \E s \in Statuses :
          Deliver(Entry("strayReply"),
                  reply(This, [has_remove_request |-> FALSE, path |-> 0],
                        [status |-> s]),
                  outstanding, pending)
    /\ UNCHANGED <<builder_, builderTaskQueue>>

\* the operator answers one raised error with one of its advertised actions
ApplyAction ==
    /\ ~fatal
    /\ \E i \in DOMAIN pending : \E a \in pending[i] :
          Deliver([Entry("applyAction") EXCEPT
                      !.action = a, !.actions = pending[i],
                      !.path = IF tasks_ = <<>> THEN 0 ELSE Head(tasks_)],
                  applyAction(This, a), outstanding, RemoveAt(pending, i))
    /\ UNCHANGED <<builder_, builderTaskQueue, strays>>

\* every event the slots of FileRemover accept
Next ==
    \/ Start
    \/ TaskQueueError
    \/ TaskQueueReady
    \/ Reply
    \/ StrayReply
    \/ ApplyAction

Spec == Init /\ [][Next]_vars

\* the collaborators keep their contracts: the transport delivers only the
\* replies to removal requests
NextContract ==
    \/ Start
    \/ TaskQueueError
    \/ TaskQueueReady
    \/ Reply
    \/ ApplyAction

SpecContract == Init /\ [][NextContract]_vars

\* all-success runs over the non-empty queues of up to MaxProgressTasks tasks
ProgressQueueReady ==
    \E n \in 1..MaxProgressTasks : TaskQueueReadyWith(QueueOf(n))

ReplySuccess == ReplyWith(STATUS_SUCCESS)

NextProgress ==
    \/ Start
    \/ ProgressQueueReady
    \/ ReplySuccess

SpecProgress == Init /\ [][NextProgress]_vars

\* the collaborators eventually deliver what they owe
Fairness ==
    /\ WF_vars(TaskQueueError \/ TaskQueueReady)
    /\ WF_vars(Reply)
    /\ WF_vars(ApplyAction)

SpecLive == Init /\ [][NextContract]_vars /\ Fairness

\* the fields and the environment of the FileRemover object
removerVars ==
    <<builder_, builderTaskQueue, tasks_, tasks_count_, failure_action_,
      fatal, outstanding, pending, strays, trace>>

\* stop() sends the stop control
StopControl ==
    /\ stop_.pc = "control"
    /\ \E ok \in BOOLEAN : \E state \in ServiceStates :
          stop_' = stopControl(stop_, ok, state)
    /\ UNCHANGED removerVars

\* the loop condition holds: stop() sleeps and polls the service status
StopPoll ==
    /\ stop_.pc = "loop"
    /\ stopLoopCondition(stop_)
    /\ \E ok \in BOOLEAN : \E state \in ServiceStates :
          stop_' = stopPoll(stop_, ok, state)
    /\ UNCHANGED removerVars

\* the loop condition fails: stop() returns
StopReturn ==
    /\ stop_.pc = "loop"
    /\ ~stopLoopCondition(stop_)
    /\ stop_' = stopReturn(stop_)
    /\ UNCHANGED removerVars

NextStop ==
    \/ StopControl
    \/ StopPoll
    \/ StopReturn

\* one call of stop(); the calling thread keeps running
SpecStop == Init /\ [][NextStop]_vars /\ WF_vars(NextStop)

(***************************************************************************)
(* Reading the trace.                                                      *)
(***************************************************************************)
Signals == {"request", "progressChanged", "error", "finished"}
Recoverable == {STATUS_PATH_NOT_FOUND, STATUS_ACCESS_DENIED}

\* positions of the entries of kind ev, and their number
Idx(ev) == {i \in 1..Len(trace) : trace[i].ev = ev}
Count(ev) == Cardinality(Idx(ev))
Max(S) == CHOOSE x \in S : \A y \in S : y <= x

\* length of the queue the builder handed off
N == Len(builderTaskQueue)
\* 0-based index of the task with path p in the handed-off queue
IndexOf(p) == (CHOOSE k \in 1..N : builderTaskQueue[k] = p) - 1

\* the environment owes the object nothing more
Quiescent ==
    /\ builder_ \in {"error", "finished"}
    /\ outstanding = <<>>
    /\ pending = <<>>

\* in a step: the slot invocation and the signals it emitted
Call == trace'[Len(trace) + 1]
Emitted == SubSeq(trace', Len(trace) + 2, Len(trace'))
EmittedEvs == {Emitted[k].ev : k \in 1..Len(Emitted)}

\* applyAction(Abort) has been called
Aborted == \E i \in 1..Len(trace) :
               trace[i].ev = "applyAction" /\ trace[i].action = Abort

(***************************************************************************)
(* C1: with collaborators that keep their contracts, finished() is emitted *)
(* exactly once per batch -- never twice, and once by the time nothing is  *)
(* owed any more -- and no signal is emitted after it.                     *)
(***************************************************************************)
C1_TerminalOnce ==
    /\ Count("finished") <= 1
    /\ \A i \in 1..Len(trace) :
          trace[i].ev = "finished" =>
              \A j \in (i + 1)..Len(trace) : trace[j].ev \notin Signals
    /\ Quiescent => Count("finished") = 1

C1_Witness ==
    /\ Count("finished") = 1
    /\ Count("request") >= 2
    /\ Count("error") >= 1
    /\ Count("applyAction") = Count("error")

(***************************************************************************)
(* C2: a call of applyAction(Abort) emits finished() and leaves the task   *)
(* queue unchanged, and no step after it emits a request.                  *)
(***************************************************************************)
C2_AbortStopsBatch ==
    [][/\ (Call.ev = "applyAction" /\ Call.action = Abort) =>
              (Emitted = <<SigFinished>> /\ tasks_' = tasks_)
       /\ Aborted => "request" \notin EmittedEvs]_vars

(***************************************************************************)
(* C3: at most one removal request is outstanding, and it is for the path  *)
(* of the task at the front of the queue.                                  *)
(***************************************************************************)
C3_OneOutstanding ==
    /\ Len(outstanding) <= 1
    /\ outstanding # <<>> =>
          (tasks_ # <<>> /\ Head(outstanding) = Head(tasks_))

C3_Witness ==
    /\ Len(outstanding) = 1
    /\ Len(tasks_) < tasks_count_
    /\ Count("applyAction") >= 1

(***************************************************************************)
(* C4: once a batch is started, and the builder, the transport and the     *)
(* operator eventually deliver what they owe, finished() is eventually     *)
(* emitted.                                                                *)
(***************************************************************************)
C4_Terminates == (builder_ # "null") ~> (Count("finished") >= 1)

C4_Witness ==
    /\ Count("finished") >= 1
    /\ tasks_count_ >= 2
    /\ \E i \in 1..Len(trace) :
          trace[i].ev = "reply" /\ trace[i].status # STATUS_SUCCESS
    /\ Quiescent

(***************************************************************************)
(* C5: in an all-success run over a queue of N >= 1 tasks, after r replies *)
(* exactly min(r + 1, N) requests and as many progressChanged signals have *)
(* been emitted (so the i-th request comes only after the (i-1)-th reply   *)
(* and N are emitted in all), no error is ever emitted, and finished() is  *)
(* emitted by the N-th reply, as the signal right after it, and not before.*)
(***************************************************************************)
C5_AllSuccess ==
    builder_ = "finished" =>
        LET r == Count("reply")
        IN /\ Count("error") = 0
           /\ Count("request") = (IF r < N THEN r + 1 ELSE N)
           /\ Count("progressChanged") = Count("request")
           /\ Count("finished") = (IF r = N THEN 1 ELSE 0)
           /\ r = N => /\ trace[Len(trace) - 1].ev = "reply"
                       /\ trace[Len(trace)] = SigFinished

C5_Witness ==
    /\ N >= 3
    /\ Count("reply") = N
    /\ Count("finished") = 1

(***************************************************************************)
(* C6 as stated: in an all-success run the progressChanged signal for the  *)
(* last task of the queue carries 100.                                     *)
(***************************************************************************)
C6_FinalIs100 ==
    \A i \in Idx("progressChanged") :
        trace[i].path = builderTaskQueue[N] => trace[i].percentage = 100

(***************************************************************************)
(* C6 amended: in an all-success run over N >= 1 tasks the progressChanged *)
(* signal for the last task carries (N - 1) * 100 / N (integer division),  *)
(* which is below 100.                                                     *)
(***************************************************************************)
C6_FinalBelow100 ==
    \A i \in Idx("progressChanged") :
        trace[i].path = builderTaskQueue[N] =>
            /\ trace[i].percentage = ((N - 1) * 100) \div N
            /\ trace[i].percentage < 100

C6_Witness ==
    /\ N >= 3
    /\ Count("finished") = 1
    /\ \E i \in Idx("progressChanged") : trace[i].path = builderTaskQueue[N]

\* the percentages of the last two progressChanged signals emitted so far
LastPercentage == trace[Max(Idx("progressChanged"))].percentage
PrevPercentage ==
    trace[Max(Idx("progressChanged") \ {Max(Idx("progressChanged"))})].percentage

(***************************************************************************)
(* C7 as stated: in an all-success run each progressChanged signal carries *)
(* a percentage strictly greater than the one before it.                   *)
(***************************************************************************)
C7_StrictlyIncreasing ==
    Count("progressChanged") >= 2 => LastPercentage > PrevPercentage

(***************************************************************************)
(* C7 amended: in an all-success run each progressChanged signal carries a *)
(* percentage not smaller than the one before it, and strictly greater     *)
(* when the queue has at most 100 tasks.                                   *)
(***************************************************************************)
C7_NonDecreasing ==
    Count("progressChanged") >= 2 =>
        /\ LastPercentage >= PrevPercentage
        /\ N <= 100 => LastPercentage > PrevPercentage

C7_Witness ==
    /\ N > 100
    /\ Count("progressChanged") >= 2
    /\ LastPercentage = PrevPercentage

(***************************************************************************)
(* C8: every progressChanged signal carries i * 100 / N (integer division) *)
(* for the task with 0-based index i of the handed-off queue of length N,  *)
(* and the division is never reached with a zero divisor.                  *)
(***************************************************************************)
C8_Percentage ==
    /\ ~fatal
    /\ \A i \in Idx("progressChanged") :
          /\ \E k \in 1..N : builderTaskQueue[k] = trace[i].path
          /\ trace[i].percentage = (IndexOf(trace[i].path) * 100) \div N

C8_Witness ==
    /\ N = 3
    /\ \E i \in Idx("applyAction") : trace[i].action = Skip
    /\ \E i \in Idx("progressChanged") : trace[i].percentage = 66

(***************************************************************************)
(* C9: when the builder finishes with an empty queue, finished() is the    *)
(* very next signal, and the batch emits no request and no progressChanged.*)
(***************************************************************************)
C9_EmptyQueue ==
    \A i \in Idx("taskQueueReady") :
        trace[i].size = 0 =>
            /\ i < Len(trace)
            /\ trace[i + 1] = SigFinished
            /\ Count("request") = 0
            /\ Count("progressChanged") = 0

C9_Witness ==
    /\ \E i \in Idx("taskQueueReady") : trace[i].size = 0
    /\ Count("finished") >= 1

\* the step is a call of applyAction(Skip)
SkipStep == Call.ev = "applyAction" /\ Call.action = Skip

\* the operator has chosen Skip, and not SkipAll after it
SkipWasLastChoice ==
    LET S == {i \in Idx("applyAction") : trace[i].action # Abort}
    IN S # {} /\ trace[Max(S)].action = Skip

(***************************************************************************)
(* C10: applyAction(Skip) removes exactly the front task, requests the     *)
(* next task or emits finished() when none is left, and leaves the sticky  *)
(* policy at Ask; no request is emitted for the path of a skipped task;    *)
(* and a recoverable failure after a Skip raises an error with Abort, Skip *)
(* and SkipAll again.                                                      *)
(***************************************************************************)
C10_SkipOnce ==
    [][/\ SkipStep =>
              /\ tasks_ # <<>>
              /\ Call.actions = {Abort, Skip, SkipAll}
              /\ tasks_' = Tail(tasks_)
              /\ failure_action_ = Ask
              /\ failure_action_' = Ask
              /\ IF tasks_' = <<>>
                 THEN Emitted = <<SigFinished>>
                 ELSE /\ Len(Emitted) = 2
                      /\ Emitted[1].ev = "progressChanged"
                      /\ Emitted[1].path = Head(tasks_')
                      /\ Emitted[2] = SigRequest(Head(tasks_'))
       /\ \A k \in 1..Len(Emitted) :
              Emitted[k].ev = "request" =>
                  ~\E i \in Idx("applyAction") :
                       trace[i].action = Skip /\ trace[i].path = Emitted[k].path
       /\ (/\ Call.ev = "reply"
           /\ Call.status \in Recoverable
           /\ SkipWasLastChoice) =>
              Emitted = <<SigError({Abort, Skip, SkipAll})>>]_vars

C10_Witness ==
    \E i \in Idx("applyAction") :
        /\ trace[i].action = Skip
        /\ \E j \in Idx("reply") :
              /\ j > i
              /\ trace[j].status \in Recoverable
              /\ j < Len(trace)
              /\ trace[j + 1].ev = "error"

\* applyAction(SkipAll) has been called
SkipAllChosen == \E i \in Idx("applyAction") : trace[i].action = SkipAll

\* the step drops the front task and goes on: progressChanged and request for
\* the new front task, or finished() when no task is left
Advanced ==
    /\ tasks_ # <<>>
    /\ tasks_' = Tail(tasks_)
    /\ IF tasks_' = <<>>
       THEN Emitted = <<SigFinished>>
       ELSE /\ Len(Emitted) = 2
            /\ Emitted[1].ev = "progressChanged"
            /\ Emitted[1].path = Head(tasks_')
            /\ Emitted[2] = SigRequest(Head(tasks_'))

\* the statuses of the replies and the percentages of the progressChanged
\* signals so far, in order
ReplyStatuses ==
    LET r == SelectEv(trace, "reply") IN [k \in 1..Len(r) |-> r[k].status]
Percentages ==
    LET r == SelectEv(trace, "progressChanged")
    IN [k \in 1..Len(r) |-> r[k].percentage]

\* the finished run over three tasks: the first succeeds, the second fails
\* with access denied and is answered with SkipAll, the third fails with path
\* not found
SkipAllExample ==
    /\ N = 3
    /\ strays = 0
    /\ Quiescent
    /\ SkipAllChosen
    /\ \A i \in Idx("applyAction") : trace[i].action = SkipAll
    /\ ReplyStatuses =
           <<STATUS_SUCCESS, STATUS_ACCESS_DENIED, STATUS_PATH_NOT_FOUND>>

(***************************************************************************)
(* C11: applyAction(SkipAll) drops the front task and stores SkipAll, and  *)
(* every later reply with path not found or access denied drops its task   *)
(* and goes on to the next without an error signal; in the run over three  *)
(* tasks (success, access denied answered with SkipAll, path not found)    *)
(* exactly one error is raised, progress is 0, 33, 66, and finished() ends *)
(* the run.                                                                *)
(***************************************************************************)
C11_SkipAllSticky ==
    [][/\ (Call.ev = "applyAction" /\ Call.action = SkipAll) =>
              (Advanced /\ failure_action_' = SkipAll)
       /\ (SkipAllChosen /\ Call.ev = "reply" /\ Call.status \in Recoverable) =>
              (Advanced /\ "error" \notin EmittedEvs)
       /\ SkipAllExample' =>
              /\ Count("error")' = 1
              /\ Percentages' = <<0, 33, 66>>
              /\ Count("finished")' = 1
              /\ trace'[Len(trace')] = SigFinished]_vars

C11_Witness ==
    /\ SkipAllExample
    /\ Count("error") = 1
    /\ trace[Len(trace) - 1].status = STATUS_PATH_NOT_FOUND

\* the object's fields are the same after the step
FieldsUnchanged == UNCHANGED <<tasks_, tasks_count_, failure_action_>>

(***************************************************************************)
(* C12: a reply to a removal request with a status other than success,     *)
(* path not found and access denied emits exactly one error signal, whose  *)
(* allowed actions are exactly {Abort}, and dequeues nothing, whether the  *)
(* sticky policy is Ask or SkipAll.                                        *)
(***************************************************************************)
C12_UnclassifiedAbortOnly ==
    [][(Call.ev = "reply" /\ Call.status \notin {STATUS_SUCCESS} \cup Recoverable) =>
           (Emitted = <<SigError({Abort})>> /\ FieldsUnchanged)]_vars

C12_Witness ==
    /\ failure_action_ = SkipAll
    /\ Len(trace) >= 2
    /\ trace[Len(trace) - 1].ev = "reply"
    /\ trace[Len(trace) - 1].status = STATUS_OTHER
    /\ trace[Len(trace)] = SigError({Abort})

C14_StrayReply ==
    [][Call.ev = "strayReply" =>
           (Emitted = <<SigError({Abort})>> /\ FieldsUnchanged)]_vars

C14_Witness ==
    /\ failure_action_ = SkipAll
    /\ outstanding # <<>>
    /\ Len(trace) >= 2
    /\ trace[Len(trace) - 1].ev = "strayReply"
    /\ trace[Len(trace)] = SigError({Abort})

(***************************************************************************)
(* C15: when the builder reports an error, exactly one error signal with   *)
(* allowed actions {Abort} is emitted for it, the batch never emits a      *)
(* request or a progressChanged, and the operator's Abort is followed by   *)
(* finished().                                                             *)
(***************************************************************************)
C15_BuilderError ==
    builder_ = "error" =>
        /\ \A i \in Idx("taskQueueError") :
              /\ i < Len(trace)
              /\ trace[i + 1] = SigError({Abort})
              /\ (i + 1 < Len(trace) => trace[i + 2].ev \notin Signals)
        /\ Count("request") = 0
        /\ Count("progressChanged") = 0
        /\ \A i \in Idx("applyAction") :
              /\ trace[i].action = Abort
              /\ i < Len(trace)
              /\ trace[i + 1] = SigFinished
        /\ Quiescent => Count("finished") >= 1

C15_Witness ==
    /\ builder_ = "error"
    /\ Quiescent
    /\ Count("applyAction") >= 1
    /\ trace[Len(trace)] = SigFinished

(***************************************************************************)
(* C16: tasks_count_ is set at the queue hand-off, which happens at most   *)
(* once, to the length of the handed-off queue, and no other step changes  *)
(* it; it is never smaller than the current queue length; and every step   *)
(* but the hand-off leaves the queue as it is or removes its front task.   *)
(***************************************************************************)
C16_TotalCountFixed ==
    [][/\ Call.ev = "taskQueueReady" =>
              /\ Count("taskQueueReady") = 0
              /\ tasks_' = builderTaskQueue'
              /\ tasks_count_' = Len(builderTaskQueue')
       /\ Call.ev # "taskQueueReady" =>
              /\ tasks_count_' = tasks_count_
              /\ \/ tasks_' = tasks_
                 \/ tasks_ # <<>> /\ tasks_' = Tail(tasks_)
       /\ tasks_count_' >= Len(tasks_')]_vars

C16_Witness ==
    /\ tasks_count_ = 3
    /\ Len(tasks_) = 1
    /\ Count("applyAction") >= 1

\* the paths of the requests emitted so far, in order
RequestedPaths ==
    LET r == SelectEv(trace, "request") IN [k \in 1..Len(r) |-> r[k].path]

(***************************************************************************)
(* C17: the paths of the emitted requests are, in order, a prefix of the   *)
(* builder's task queue, so no task is requested twice; the queue is       *)
(* always a suffix of the builder's queue, and the requested tasks are     *)
(* exactly those dequeued so far plus the front task, so no task is        *)
(* requested while a task ahead of it is still queued.                     *)
(***************************************************************************)
C17_FrontToBack ==
    LET requested == RequestedPaths
    IN /\ Len(requested) <= N
       /\ requested = SubSeq(builderTaskQueue, 1, Len(requested))
       /\ tasks_ = SubSeq(builderTaskQueue, N - Len(tasks_) + 1, N)
       /\ Len(requested) =
              (N - Len(tasks_)) + (IF tasks_ = <<>> THEN 0 ELSE 1)

C17_Witness ==
    /\ N = 3
    /\ Len(RequestedPaths) = 3
    /\ \E i \in Idx("applyAction") : trace[i].action = Skip
    /\ \E i \in Idx("reply") : trace[i].status = STATUS_SUCCESS

\* the last reply delivered for a removal request
LastReply == trace[Max(Idx("reply"))]

(***************************************************************************)
(* C18: a step other than the hand-off changes the queue only by removing  *)
(* the front task, and only (a) on a success reply for it, (b) on a path   *)
(* not found / access denied reply for it while SkipAll is stored, or (c)  *)
(* on applyAction(Skip or SkipAll) answering an error raised by a path not *)
(* found / access denied reply for it; a task whose reply carried an       *)
(* unclassified failure stays in the queue.                                *)
(***************************************************************************)
C18_NoSilentSkip ==
    [][/\ (Call.ev # "taskQueueReady" /\ tasks_' # tasks_) =>
              /\ tasks_ # <<>>
              /\ tasks_' = Tail(tasks_)
              /\ \/ /\ Call.ev = "reply"
                    /\ Call.path = Head(tasks_)
                    /\ Call.status = STATUS_SUCCESS
                 \/ /\ Call.ev = "reply"
                    /\ Call.path = Head(tasks_)
                    /\ Call.status \in Recoverable
                    /\ failure_action_ = SkipAll
                 \/ /\ Call.ev = "applyAction"
                    /\ Call.action \in {Skip, SkipAll}
                    /\ Call.actions = {Abort, Skip, SkipAll}
                    /\ Idx("reply") # {}
                    /\ LastReply.path = Head(tasks_)
                    /\ LastReply.status \in Recoverable
       /\ \A i \in 1..Len(trace') :
              (trace'[i].ev = "reply" /\ trace'[i].status = STATUS_OTHER) =>
                  \E k \in 1..Len(tasks_') : tasks_'[k] = trace'[i].path]_vars

C18_Witness ==
    /\ SkipAllChosen
    /\ Len(tasks_) = 1
    /\ trace[Len(trace) - 1].ev = "reply"
    /\ trace[Len(trace) - 1].status = STATUS_OTHER
    /\ \E i \in Idx("reply") : trace[i].status \in Recoverable

(***************************************************************************)
(* C19: the sticky policy is Ask at first and Ask or SkipAll ever after;   *)
(* the only step that changes it is applyAction(SkipAll), from Ask to      *)
(* SkipAll; replies, Skip, Abort and the queue hand-off leave it as it is. *)
(***************************************************************************)
C19_PolicyMonotone ==
    /\ failure_action_ = Ask
    /\ [][/\ failure_action_' \in {Ask, SkipAll}
          /\ failure_action_' # failure_action_ =>
                 /\ Call.ev = "applyAction"
                 /\ Call.action = SkipAll
                 /\ failure_action_ = Ask
                 /\ failure_action_' = SkipAll
          /\ failure_action_ = SkipAll => failure_action_' = SkipAll]_vars

C19_Witness ==
    /\ failure_action_ = SkipAll
    /\ \E i \in Idx("applyAction") : trace[i].action = Skip
    /\ \E i \in Idx("applyAction") : trace[i].action = Abort
    /\ trace[Len(trace) - 1].ev = "reply"

(***************************************************************************)
(* C20: stop() returns: it polls the service status at most 15 times, and  *)
(* only after an accepted stop control, while the last observed state is   *)
(* not SERVICE_STOPPED and no query has failed; it returns true exactly    *)
(* when the control was accepted and the last observed state is            *)
(* SERVICE_STOPPED, hence false when the control request fails, a query    *)
(* fails, or 15 polls pass without SERVICE_STOPPED.                        *)
(***************************************************************************)
C20_StopBounded ==
    /\ [](/\ stop_.queries <= MaxAttempts
          /\ stop_.pc = "return" =>
                 /\ stop_.result \in BOOLEAN
                 /\ stop_.result =
                        (stop_.control_ok /\ stop_.dwCurrentState = SERVICE_STOPPED)
                 /\ stop_.query_failed => ~stop_.result
                 /\ (stop_.control_ok /\ ~stop_.query_failed /\ ~stop_.result) =>
                        stop_.queries = MaxAttempts)
    /\ [][stop_.queries' > stop_.queries =>
              /\ stop_.queries' = stop_.queries + 1
              /\ stop_.control_ok
              /\ ~stop_.query_failed
              /\ stop_.dwCurrentState # SERVICE_STOPPED]_vars
    /\ <>(stop_.pc = "return")

C20_Witness ==
    /\ stop_.pc = "return"
    /\ stop_.result = FALSE
    /\ stop_.queries = MaxAttempts
    /\ ~stop_.query_failed

====
